---- MODULE Spec2Model ----
(***************************************************************************)
(* Model of the host audit agent in audit_monitor.py: the repo locator,    *)
(* the process classifier, the process lifecycle tracker, the file event   *)
(* handler, the commit watcher, the prompt-log scan, the upload loop and    *)
(* the shared CSV event log.                                               *)
(*                                                                         *)
(* Strings are sequences of one-character strings, so that Python's        *)
(* substring test ("x in s"), lower() and pathlib's parsing are computed   *)
(* character by character.  Time is counted in ticks of half a second.     *)
(***************************************************************************)
EXTENDS Integers, Sequences, FiniteSets, TLC

(***************************************************************************)
(* Strings                                                                 *)
(***************************************************************************)
EmptyStr == << >>

\* Python: pat in s
IsSubstr(pat, s) ==
    \E i \in 0..(Len(s) - Len(pat)) : SubSeq(s, i + 1, i + Len(pat)) = pat

\* Python: s.endswith(suf)
EndsWith(s, suf) ==
    /\ Len(suf) <= Len(s)
    /\ SubSeq(s, Len(s) - Len(suf) + 1, Len(s)) = suf

UpperCase ==
    <<"A", "B", "C", "D", "E", "F", "G", "H", "I", "J", "K", "L", "M",
      "N", "O", "P", "Q", "R", "S", "T", "U", "V", "W", "X", "Y", "Z">>
LowerCase ==
    <<"a", "b", "c", "d", "e", "f", "g", "h", "i", "j", "k", "l", "m",
      "n", "o", "p", "q", "r", "s", "t", "u", "v", "w", "x", "y", "z">>

LowerChar(c) ==
    IF \E i \in 1..26 : UpperCase[i] = c
    THEN LowerCase[CHOOSE i \in 1..26 : UpperCase[i] = c]
    ELSE c

\* Python: s.lower()
lower(s) == [i \in 1..Len(s) |-> LowerChar(s[i])]

RECURSIVE JoinWith(_, _)
\* Python: sep.join(parts)
JoinWith(sep, parts) ==
    IF parts = << >> THEN EmptyStr
    ELSE IF Len(parts) = 1 THEN parts[1]
    ELSE parts[1] \o sep \o JoinWith(sep, Tail(parts))

S_slash == <<"/">>
S_dot == <<".">>
S_space == <<" ">>
S_git == <<"g", "i", "t">>
S_dotgit == <<".", "g", "i", "t">>
S_python == <<"p", "y", "t", "h", "o", "n">>
S_node == <<"n", "o", "d", "e">>
S_npm == <<"n", "p", "m">>
S_yarn == <<"y", "a", "r", "n">>
S_npx == <<"n", "p", "x">>
S_pnpm == <<"p", "n", "p", "m">>
S_code == <<"c", "o", "d", "e">>
S_claude == <<"c", "l", "a", "u", "d", "e">>
S_commit == <<"c", "o", "m", "m", "i", "t">>
S_vscode == <<"v", "s", "c", "o", "d", "e">>
S_nodejs == <<"n", "o", "d", "e", "j", "s">>
S_claude_code == S_claude \o <<"_">> \o S_code
S_unknown == <<"u", "n", "k", "n", "o", "w", "n">>
S__start == <<"_", "s", "t", "a", "r", "t">>
S__end == <<"_", "e", "n", "d">>
S_git_commit == S_git \o <<"_">> \o S_commit
S_file_edit == <<"f", "i", "l", "e", "_", "e", "d", "i", "t">>
S_file_create == <<"f", "i", "l", "e", "_", "c", "r", "e", "a", "t", "e">>

(***************************************************************************)
(* RepoLocator: is_in_git_repo, find_git_repo                              *)
(***************************************************************************)
VARIABLES
    gitDirs,      \* the directories (as part sequences) holding a .git entry
    queryPath,    \* the path last handed to the locator
    inRepo,       \* is_in_git_repo(queryPath)
    repoRoot      \* find_git_repo(queryPath)

repoVars == <<gitDirs, queryPath, inRepo, repoRoot>>

RECURSIVE SplitSlash(_, _)
\* the segments of a string between "/" characters; cur is the open segment
SplitSlash(s, cur) ==
    IF s = << >> THEN <<cur>>
    ELSE IF Head(s) = "/" THEN <<cur>> \o SplitSlash(Tail(s), EmptyStr)
    ELSE SplitSlash(Tail(s), Append(cur, Head(s)))

\* pathlib.Path(path) for an absolute path: the parts below the root, with
\* empty segments ("//", trailing "/") and "." segments dropped
PathParts(path) ==
    SelectSeq(SplitSlash(path, EmptyStr), LAMBDA seg : seg # EmptyStr /\ seg # S_dot)

\* str(p) of an absolute pathlib path with the given parts
PathStr(parts) == S_slash \o JoinWith(S_slash, parts)

\* [current] + list(current.parents): the path itself, then each ancestor up
\* to the root
Lineage(parts) == [i \in 1..(Len(parts) + 1) |-> SubSeq(parts, 1, Len(parts) + 1 - i)]

\* (parent / '.git').exists()
HasGitEntry(parts) == parts \in gitDirs

is_in_git_repo(path) ==
    IF path = EmptyStr THEN FALSE
    ELSE LET line == Lineage(PathParts(path))
         IN  \E i \in 1..Len(line) : HasGitEntry(line[i])

\* a walk that keeps the last hit instead of returning at the first one
find_git_repo_outermost(path) ==
    IF path = EmptyStr THEN EmptyStr
    ELSE LET line == Lineage(PathParts(path))
             hits == {i \in 1..Len(line) : HasGitEntry(line[i])}
         IN  IF hits = {} THEN path
             ELSE PathStr(line[CHOOSE i \in hits : \A j \in hits : i >= j])

find_git_repo(path) ==
    IF path = EmptyStr THEN EmptyStr
    ELSE LET line == Lineage(PathParts(path))
             hits == {i \in 1..Len(line) : HasGitEntry(line[i])}
         IN  IF hits = {} THEN path
             ELSE PathStr(line[CHOOSE i \in hits : \A j \in hits : i <= j])

IsPrefixOf(d, parts) == Len(d) <= Len(parts) /\ SubSeq(parts, 1, Len(d)) = d

\* the directories on the way from the root to the path, the path included,
\* that hold a .git entry
GitAncestors(path) ==
    IF path = EmptyStr THEN {}
    ELSE {d \in gitDirs : IsPrefixOf(d, PathParts(path))}

NearestOf(ds) == CHOOSE d \in ds : \A e \in ds : Len(e) <= Len(d)

\* the directory named by a returned string holds a .git entry
ContainsGit(str) == str # EmptyStr /\ PathParts(str) \in gitDirs

\* the directories of the modelled file system, as part sequences
D_root == << >>
D_r == <<<<"r">>>>
D_ra == <<<<"r">>, <<"a">>>>
D_t == <<<<"t">>>>
Dirs == {D_root, D_r, D_ra, D_t}

\* the paths handed to the locator: "", "/", "/r", "/r/a", "/r/a/f",
\* "/r/a/", "/r//a", "/r/./f", "/t", "/t/f"
P_empty == EmptyStr
P_root == <<"/">>
P_r == <<"/", "r">>
P_ra == <<"/", "r", "/", "a">>
P_raf == <<"/", "r", "/", "a", "/", "f">>
P_ra_slash == <<"/", "r", "/", "a", "/">>
P_r_slash_a == <<"/", "r", "/", "/", "a">>
P_r_dot_f == <<"/", "r", "/", ".", "/", "f">>
P_t == <<"/", "t">>
P_tf == <<"/", "t", "/", "f">>
LocatorPaths ==
    {P_empty, P_root, P_r, P_ra, P_raf, P_ra_slash, P_r_slash_a, P_r_dot_f, P_t, P_tf}

NoQuery == <<"<none>">>

RepoIdle ==
    /\ queryPath = NoQuery
    /\ inRepo = FALSE
    /\ repoRoot = EmptyStr

\* a caller asks both questions about one path
Locate(p) ==
    /\ queryPath' = p
    /\ inRepo' = is_in_git_repo(p)
    /\ repoRoot' = find_git_repo(p)
    /\ UNCHANGED gitDirs

(***************************************************************************)
(* ProcessClassifier: _get_process_type, _get_tool_name,                   *)
(* _get_tool_name_from_cmdline and the is_monitored test of the poller     *)
(***************************************************************************)
VARIABLES
    clsName,      \* the process name last classified
    clsCmd,       \* the command line last classified
    clsType,      \* _get_process_type(clsName, clsCmd)
    clsTool       \* _get_tool_name(clsName, clsCmd)

clsVars == <<clsName, clsCmd, clsType, clsTool>>

NodeTools == {S_node, S_npm, S_yarn, S_npx, S_pnpm}
PackageTools == {S_npm, S_yarn, S_npx, S_pnpm}

get_process_type(proc_name, cmdline) ==
    LET proc_name_lower == lower(proc_name)
    IN  IF IsSubstr(S_python, proc_name_lower) THEN S_python
        ELSE IF proc_name_lower \in NodeTools THEN S_nodejs
        ELSE IF IsSubstr(S_code, proc_name_lower) THEN S_vscode
        ELSE IF IsSubstr(S_claude, lower(cmdline)) THEN S_claude_code
        ELSE S_unknown

get_tool_name(proc_name, cmdline) ==
    LET proc_name_lower == lower(proc_name)
    IN  IF IsSubstr(S_code, proc_name_lower) THEN S_vscode
        ELSE IF IsSubstr(S_claude, lower(cmdline)) THEN S_claude_code
        ELSE IF proc_name_lower \in PackageTools THEN proc_name_lower
        ELSE IF proc_name_lower = S_node THEN S_node
        ELSE IF IsSubstr(S_python, proc_name_lower) THEN S_python
        ELSE proc_name

\* the first tool of the list ['npm', 'yarn', 'npx', 'pnpm'] found in s
FirstPackageTool(s) ==
    IF IsSubstr(S_npm, s) THEN S_npm
    ELSE IF IsSubstr(S_yarn, s) THEN S_yarn
    ELSE IF IsSubstr(S_npx, s) THEN S_npx
    ELSE S_pnpm

get_tool_name_from_cmdline(cmdline) ==
    LET cmdline_lower == lower(cmdline)
    IN  IF IsSubstr(S_claude, cmdline_lower) THEN S_claude_code
        ELSE IF IsSubstr(S_code, cmdline_lower) THEN S_vscode
        ELSE IF \E tool \in PackageTools : IsSubstr(tool, cmdline_lower)
             THEN FirstPackageTool(cmdline_lower)
        ELSE IF IsSubstr(S_node, cmdline_lower) THEN S_node
        ELSE IF IsSubstr(S_python, cmdline_lower) THEN S_python
        ELSE S_unknown

\* a sweep that takes every process for one of interest
is_monitored_every_name(proc_name) == TRUE

\* the test of monitor_processes that selects the processes of interest
is_monitored(proc_name) ==
    \/ IsSubstr(S_python, lower(proc_name))
    \/ lower(proc_name) \in NodeTools
    \/ IsSubstr(S_code, lower(proc_name))

\* process names and command lines the operating system may report
N_python == <<"p", "y", "t", "h", "o", "n">>
N_python3 == <<"p", "y", "t", "h", "o", "n", "3">>
N_Python == <<"P", "y", "t", "h", "o", "n">>
N_node == <<"n", "o", "d", "e">>
N_npm == <<"n", "p", "m">>
N_yarn == <<"y", "a", "r", "n">>
N_npx == <<"n", "p", "x">>
N_pnpm == <<"p", "n", "p", "m">>
N_NPM == <<"N", "P", "M">>
N_code == <<"c", "o", "d", "e">>
N_Code == <<"C", "o", "d", "e">>
N_pycode == <<"p", "y", "t", "h", "o", "n", "c", "o", "d", "e">>
N_bash == <<"b", "a", "s", "h">>
N_git == <<"g", "i", "t">>
N_nodejs == <<"n", "o", "d", "e", "j", "s">>
ProcNames ==
    {N_python, N_python3, N_Python, N_node, N_npm, N_yarn, N_npx, N_pnpm, N_NPM, N_code, N_Code, N_pycode, N_bash, N_git, N_nodejs}

L_empty == <<>>
L_plain == <<"r", "u", "n", " ", "x">>
L_claude == <<"c", "l", "a", "u", "d", "e", " ", "c", "h", "a", "t">>
L_Claude == <<"C", "l", "a", "u", "d", "e">>
L_python == <<"p", "y", "t", "h", "o", "n", " ", "s", ".", "p", "y">>
L_node_claude == <<"n", "o", "d", "e", " ", "c", "l", "a", "u", "d", "e", ".", "j", "s">>
L_pnpm == <<"p", "n", "p", "m", " ", "i">>
L_code == <<"c", "o", "d", "e", " ", ".">>
L_commit == <<"g", "i", "t", " ", "c", "o", "m", "m", "i", "t", " ", "-", "m", " ", "x">>
L_status == <<"g", "i", "t", " ", "s", "t", "a", "t", "u", "s">>
CmdLines ==
    {L_empty, L_plain, L_claude, L_Claude, L_python, L_node_claude, L_pnpm, L_code, L_commit, L_status}

NoName == <<"<none>">>

ClsIdle ==
    /\ clsName = NoName
    /\ clsCmd = EmptyStr
    /\ clsType = EmptyStr
    /\ clsTool = EmptyStr

\* the poller classifies one process
Classify(name, cmdline) ==
    /\ clsName' = name
    /\ clsCmd' = cmdline
    /\ clsType' = get_process_type(name, cmdline)
    /\ clsTool' = get_tool_name(name, cmdline)

(***************************************************************************)
(* The event log (log_event) and the operating system's process table      *)
(***************************************************************************)
VARIABLES
    log,          \* the records of the CSV file, in file order
    appendFailures, \* how many calls of log_event have raised so far
    os,           \* pid -> the process running under it, or NoProc
    now           \* the clock, in ticks of half a second

MaxTime == 8
MaxLog == 4
MaxFail == 1

PIDS == {1, 2}
NoProc == [name |-> NoName, cmdline |-> EmptyStr, cwd |-> EmptyStr, open_files |-> {}]

\* the row log_event writes; pid is not a CSV field: it records which
\* process the row is about (0 for rows that are about no process)
Row(event_type, git_repo, file_path, command, output, tool, prompt, pid) ==
    [timestamp |-> now, event_type |-> event_type, git_repo |-> git_repo,
     file_path |-> file_path, command |-> command, output |-> output,
     tool |-> tool, prompt |-> prompt, pid |-> pid]

NoOutput == -1
NoTime == -1

(***************************************************************************)
(* ProcessLifecycleTracker: monitor_processes                              *)
(***************************************************************************)
VARIABLES
    active_processes  \* the tracked entries, in insertion order

\* time.sleep(2), in ticks
PollInterval == 4

procVars == <<active_processes>>

TrackedPids == {active_processes[i].pid : i \in 1..Len(active_processes)}

\* psutil.pid_exists(pid) on a process table
pid_exists(table, pid) == table[pid] # NoProc

\* psutil.process_iter yields the processes in ascending pid order
PidOrder == <<1, 2>>

\* a sweep that does not look the pid up in active_processes
IsFresh_no_lookup(pid) ==
    /\ os[pid] # NoProc
    /\ is_monitored(os[pid].name)
    /\ is_in_git_repo(os[pid].cwd)

\* lines 60-68 and 72: a process the sweep starts to track
IsFresh(pid) ==
    /\ os[pid] # NoProc
    /\ is_monitored(os[pid].name)
    /\ is_in_git_repo(os[pid].cwd)
    /\ pid \notin TrackedPids

\* lines 73-79.  submitted is no key of the dict: it records that a clean-up
\* has already called log_event with the entry's _end event
NewEntry(pid) ==
    [pid |-> pid, start_time |-> now, cmdline |-> os[pid].cmdline,
     cwd |-> os[pid].cwd, logged |-> FALSE,
     proc_type |-> get_process_type(os[pid].name, os[pid].cmdline),
     submitted |-> FALSE]

\* lines 82-85
StartRow(pid) ==
    Row(get_process_type(os[pid].name, os[pid].cmdline) \o S__start,
        find_git_repo(os[pid].cwd), os[pid].cwd, os[pid].cmdline, NoOutput,
        get_tool_name(os[pid].name, os[pid].cmdline), EmptyStr, pid)

\* lines 96-100
EndRow(info) ==
    Row(info.proc_type \o S__end, find_git_repo(info.cwd), info.cwd,
        info.cmdline, now - info.start_time,
        get_tool_name_from_cmdline(info.cmdline), EmptyStr, info.pid)

\* The body of one iteration of the polling loop: the sweep and the clean-up.
\* dying: the pids that exit between the enumeration and the clean-up;
\* failAt: which call of log_event in this iteration raises (0: none).  An
\* exception ends the sweep and the clean-up at the handler of line 105.
ProcSweep(dying, failAt) ==
    LET fresh == SelectSeq(PidOrder, IsFresh)
        nStart == Len(fresh)
        startFail == failAt \in 1..nStart
        inserted == IF startFail THEN SubSeq(fresh, 1, failAt) ELSE fresh
        startRows == [i \in 1..(IF startFail THEN failAt - 1 ELSE nStart) |->
                         StartRow(fresh[i])]
        swept == active_processes \o
                     [i \in 1..Len(inserted) |-> NewEntry(inserted[i])]
        table == [p \in PIDS |-> IF p \in dying THEN NoProc ELSE os[p]]
        finished == SelectSeq(swept, LAMBDA info : ~pid_exists(table, info.pid))
        nEnd == Len(finished)
        endFail == ~startFail /\ failAt \in (nStart + 1)..(nStart + nEnd)
        endRows == IF startFail THEN << >>
                   ELSE [i \in 1..(IF endFail THEN failAt - nStart - 1 ELSE nEnd) |->
                            EndRow(finished[i])]
    IN  /\ now <= MaxTime
        /\ dying \subseteq {p \in PIDS : os[p] # NoProc}
        /\ failAt \in 0..(nStart + nEnd)
        /\ failAt > 0 => appendFailures < MaxFail
        /\ Len(log) + nStart + nEnd <= MaxLog
        /\ log' = log \o startRows \o endRows
        /\ appendFailures' = appendFailures + (IF failAt > 0 THEN 1 ELSE 0)
        /\ active_processes' =
               IF startFail THEN swept
               ELSE IF endFail
               THEN [i \in 1..Len(swept) |->
                        IF \E j \in 1..(failAt - nStart) : finished[j].pid = swept[i].pid
                        THEN [swept[i] EXCEPT !.submitted = TRUE]
                        ELSE swept[i]]
               ELSE SelectSeq(swept, LAMBDA info : pid_exists(table, info.pid))
        /\ os' = table

\* one iteration of the polling loop, the sleep that ends it included
ProcCycle(dying, failAt) ==
    /\ ProcSweep(dying, failAt)
    /\ now' = now + PollInterval

\* the processes the operating system may start
ProcImages ==
    {[name |-> N_python3, cmdline |-> L_python, cwd |-> P_ra, open_files |-> {}],
     [name |-> N_pnpm, cmdline |-> L_pnpm, cwd |-> P_r, open_files |-> {}],
     [name |-> N_bash, cmdline |-> L_claude, cwd |-> P_r, open_files |-> {}],
     [name |-> N_python3, cmdline |-> L_python, cwd |-> P_tf, open_files |-> {}]}

\* the operating system starts a process under a free pid
Spawn(pid, image) ==
    /\ os[pid] = NoProc
    /\ os' = [os EXCEPT ![pid] = image]
    /\ UNCHANGED <<log, appendFailures, now>>

\* a process exits
Exit(pid) ==
    /\ os[pid] # NoProc
    /\ os' = [os EXCEPT ![pid] = NoProc]
    /\ UNCHANGED <<log, appendFailures, now>>

\* half a second passes
Tick ==
    /\ now < MaxTime
    /\ now' = now + 1
    /\ UNCHANGED <<log, appendFailures, os>>

(***************************************************************************)
(* The polling loop against a clock that runs between its iterations       *)
(***************************************************************************)
VARIABLES
    nextPoll,  \* the time at which the sleep of line 108 ends
    born,      \* pid -> the time the process under it was started
    died       \* pid -> the time the process under it exited

lifeVars == <<nextPoll, born, died>>

\* an iteration at the end of the sleep; the body takes no time on this clock
Poll(dying, failAt) ==
    /\ now = nextPoll
    /\ ProcSweep(dying, failAt)
    /\ nextPoll' = now + PollInterval
    /\ died' = [p \in PIDS |-> IF p \in dying THEN now ELSE died[p]]
    /\ UNCHANGED <<now, born>>

\* time passes while the loop sleeps
Sleep ==
    /\ now < nextPoll
    /\ Tick
    /\ UNCHANGED <<active_processes, lifeVars>>

\* a process starts under a pid that was not in use before
SpawnOnce(pid, image) ==
    /\ born[pid] = NoTime
    /\ Spawn(pid, image)
    /\ born' = [born EXCEPT ![pid] = now]
    /\ UNCHANGED <<active_processes, nextPoll, died>>

ExitAt(pid) ==
    /\ Exit(pid)
    /\ died' = [died EXCEPT ![pid] = now]
    /\ UNCHANGED <<active_processes, nextPoll, born>>

LifeIdle ==
    /\ nextPoll = 0
    /\ born = [p \in PIDS |-> NoTime]
    /\ died = [p \in PIDS |-> NoTime]

(***************************************************************************)
(* FileEventDebouncer: GitFileHandler                                      *)
(***************************************************************************)
VARIABLES
    last_modified,  \* path -> time of the last admitted modification
    observerAlive,  \* the thread that delivers the notifications is running
    heard,          \* path -> the last two modify notifications that reached
                    \* the debounce test
    skipped         \* the paths a notification was dropped for by the
                    \* exclusion patterns

fileVars == <<last_modified, observerAlive, heard, skipped>>

\* 1.0 second, in ticks
DebounceWindow == 2
MaxFileTime == 5
MaxFileLog == 2

K_git == <<".", "g", "i", "t", "/">>
K_swp == <<".", "s", "w", "p">>
K_tmp == <<".", "t", "m", "p">>
K_lock == <<".", "l", "o", "c", "k">>
K_DS_Store == <<".", "D", "S", "_", "S", "t", "o", "r", "e">>
K_pycache == <<"_", "_", "p", "y", "c", "a", "c", "h", "e", "_", "_", "/">>
K_node_modules == <<"n", "o", "d", "e", "_", "m", "o", "d", "u", "l", "e", "s", "/">>
K_vscode == <<".", "v", "s", "c", "o", "d", "e", "/">>
K_tilde == <<"~">>
K_bak == <<".", "b", "a", "k">>
skip_patterns ==
    <<K_git, K_swp, K_tmp, K_lock, K_DS_Store, K_pycache, K_node_modules, K_vscode, K_tilde, K_bak>>

S_dotvscode == <<".", "v", "s", "c", "o", "d", "e">>
S_code_workspace == <<".", "c", "o", "d", "e", "-", "w", "o", "r", "k", "s", "p", "a", "c", "e">>

\* the paths the watch reports: /r/a/f, /r/y.lock, /r/node_modules/x, /t/f, /r/p.code-workspace
F_src == <<"/", "r", "/", "a", "/", "f">>
F_lock == <<"/", "r", "/", "y", ".", "l", "o", "c", "k">>
F_dep == <<"/", "r", "/", "n", "o", "d", "e", "_", "m", "o", "d", "u", "l", "e", "s", "/", "x">>
F_out == <<"/", "t", "/", "f">>
F_ws == <<"/", "r", "/", "p", ".", "c", "o", "d", "e", "-", "w", "o", "r", "k", "s", "p", "a", "c", "e">>
FilePaths == {F_src, F_lock, F_dep, F_out}

\* a handler that only looks at the end of the path
should_skip_file_suffix_only(file_path) ==
    \E i \in 1..Len(skip_patterns) : EndsWith(file_path, skip_patterns[i])

should_skip_file(file_path) ==
    \E i \in 1..Len(skip_patterns) : IsSubstr(skip_patterns[i], file_path)

detect_editing_tool(file_path) ==
    IF IsSubstr(S_dotvscode, file_path) \/ EndsWith(file_path, S_code_workspace)
    THEN S_vscode
    ELSE IF \E pid \in PIDS :
                /\ os[pid] # NoProc
                /\ IsSubstr(S_code, lower(os[pid].name))
                /\ file_path \in os[pid].open_files
         THEN S_vscode
    ELSE S_unknown

\* a debounce test with the comparison turned round
InWindow_reversed(src_path) ==
    /\ last_modified[src_path] # NoTime
    /\ now - last_modified[src_path] >= DebounceWindow

\* lines 221-223: the path was admitted less than a second ago
InWindow(src_path) ==
    /\ last_modified[src_path] # NoTime
    /\ now - last_modified[src_path] < DebounceWindow

\* the entry of heard for a path: the latest modify notification that
\* reached the debounce test and the one before
NoNote ==
    [time |-> NoTime, admitted |-> FALSE, failed |-> FALSE,
     prevTime |-> NoTime, prevAdmitted |-> FALSE]

Note(src_path, admitted, failed) ==
    [time |-> now, admitted |-> admitted, failed |-> failed,
     prevTime |-> heard[src_path].time, prevAdmitted |-> heard[src_path].admitted]

\* on_modified(event).  fails: the call of log_event raises; nothing in the
\* handler catches it, so it ends the thread that delivers the notifications
on_modified(src_path, is_directory, fails) ==
    LET reached == /\ ~is_directory
                   /\ ~should_skip_file(src_path)
                   /\ is_in_git_repo(src_path)
        admitted == reached /\ ~InWindow(src_path)
    IN  /\ observerAlive
        /\ admitted => Len(log) < MaxFileLog
        /\ fails => admitted /\ appendFailures < MaxFail
        /\ last_modified' =
               IF admitted THEN [last_modified EXCEPT ![src_path] = now]
               ELSE last_modified
        /\ log' =
               IF admitted /\ ~fails
               THEN Append(log, Row(S_file_edit, find_git_repo(src_path), src_path,
                                    EmptyStr, NoOutput,
                                    detect_editing_tool(src_path), EmptyStr, 0))
               ELSE log
        /\ appendFailures' = appendFailures + (IF fails THEN 1 ELSE 0)
        /\ observerAlive' = ~fails
        /\ heard' = IF reached THEN [heard EXCEPT ![src_path] = Note(src_path, admitted, fails)]
                    ELSE heard
        /\ skipped' = IF ~is_directory /\ should_skip_file(src_path)
                      THEN skipped \cup {src_path} ELSE skipped
        /\ UNCHANGED <<os, now>>

\* on_created(event)
on_created(src_path, is_directory, fails) ==
    LET admitted == /\ ~is_directory
                    /\ ~should_skip_file(src_path)
                    /\ is_in_git_repo(src_path)
    IN  /\ observerAlive
        /\ admitted => Len(log) < MaxFileLog
        /\ fails => admitted /\ appendFailures < MaxFail
        /\ log' =
               IF admitted /\ ~fails
               THEN Append(log, Row(S_file_create, find_git_repo(src_path), src_path,
                                    EmptyStr, NoOutput,
                                    detect_editing_tool(src_path), EmptyStr, 0))
               ELSE log
        /\ appendFailures' = appendFailures + (IF fails THEN 1 ELSE 0)
        /\ observerAlive' = ~fails
        /\ skipped' = IF ~is_directory /\ should_skip_file(src_path)
                      THEN skipped \cup {src_path} ELSE skipped
        /\ UNCHANGED <<os, now, last_modified, heard>>

FileIdle ==
    /\ last_modified = [f \in FilePaths |-> NoTime]
    /\ observerAlive = TRUE
    /\ heard = [f \in FilePaths |-> NoNote]
    /\ skipped = {}

(***************************************************************************)
(* on_modified run by several delivering threads: the handler object holds *)
(* no lock, so a callback is the test of lines 220-223 followed, as a      *)
(* separate step, by the assignment of line 224 and the call of log_event  *)
(***************************************************************************)
VARIABLES
    cbPc,    \* delivering thread -> "idle" or "admit" (between lines 223 and 224)
    cbPath,  \* delivering thread -> event.src_path of its callback
    cbTime   \* delivering thread -> current_time, read at line 220

callbackVars == <<cbPc, cbPath, cbTime>>

Deliverers == {"d1", "d2"}
NoPath == <<"<none>">>

\* lines 213-223 of a callback: the early returns and the debounce test
TestDebounce(c, src_path, is_directory) ==
    LET admitted == /\ ~is_directory
                    /\ ~should_skip_file(src_path)
                    /\ is_in_git_repo(src_path)
                    /\ ~InWindow(src_path)
    IN  /\ cbPc[c] = "idle"
        /\ cbPc' = [cbPc EXCEPT ![c] = IF admitted THEN "admit" ELSE "idle"]
        /\ cbPath' = [cbPath EXCEPT ![c] = IF admitted THEN src_path ELSE NoPath]
        /\ cbTime' = [cbTime EXCEPT ![c] = IF admitted THEN now ELSE NoTime]
        /\ UNCHANGED <<last_modified, log, now>>

\* lines 224-228 of a callback
AdmitModified(c) ==
    /\ cbPc[c] = "admit"
    /\ Len(log) < MaxFileLog
    /\ last_modified' = [last_modified EXCEPT ![cbPath[c]] = cbTime[c]]
    /\ log' = Append(log, Row(S_file_edit, find_git_repo(cbPath[c]), cbPath[c],
                              EmptyStr, NoOutput,
                              detect_editing_tool(cbPath[c]), EmptyStr, 0))
    /\ cbPc' = [cbPc EXCEPT ![c] = "idle"]
    /\ cbPath' = [cbPath EXCEPT ![c] = NoPath]
    /\ cbTime' = [cbTime EXCEPT ![c] = NoTime]
    /\ UNCHANGED now

CallbackIdle ==
    /\ cbPc = [c \in Deliverers |-> "idle"]
    /\ cbPath = [c \in Deliverers |-> NoPath]
    /\ cbTime = [c \in Deliverers |-> NoTime]

(***************************************************************************)
(* CommitWatcher: GitCommitMonitor.monitor_git_commands                    *)
(***************************************************************************)
VARIABLES
    commitSeen    \* pid -> in how many iterations the watcher enumerated a
                  \* process under this pid that was a git commit in a repo

commitVars == <<commitSeen>>

\* time.sleep(1), in ticks
CommitInterval == 2
MaxCommitTime == 4
MaxCommitLog == 3

N_Git == <<"G", "i", "t">>
L_Commit == <<"g", "i", "t", " ", "C", "O", "M", "M", "I", "T">>

\* the git processes the operating system may start
GitImages ==
    {[name |-> N_git, cmdline |-> L_commit, cwd |-> P_r, open_files |-> {}],
     [name |-> N_git, cmdline |-> L_status, cwd |-> P_r, open_files |-> {}],
     [name |-> N_git, cmdline |-> L_commit, cwd |-> P_t, open_files |-> {}],
     [name |-> N_Git, cmdline |-> L_commit, cwd |-> P_r, open_files |-> {}],
     [name |-> N_git, cmdline |-> L_Commit, cwd |-> P_r, open_files |-> {}]}

\* a test of the name that ignores case
IsGitCommit_any_case(pid) ==
    /\ os[pid] # NoProc
    /\ lower(os[pid].name) = S_git
    /\ is_in_git_repo(os[pid].cwd)
    /\ IsSubstr(S_commit, os[pid].cmdline)

\* lines 282-286
IsGitCommit(pid) ==
    /\ os[pid] # NoProc
    /\ os[pid].name = S_git
    /\ is_in_git_repo(os[pid].cwd)
    /\ IsSubstr(S_commit, os[pid].cmdline)

\* lines 287-288
CommitRow(pid) ==
    Row(S_git_commit, find_git_repo(os[pid].cwd), os[pid].cwd, os[pid].cmdline,
        NoOutput, EmptyStr, EmptyStr, pid)

\* the three conditions of the documented watcher
CommitCandidate(proc) ==
    /\ proc # NoProc
    /\ proc.name = S_git
    /\ GitAncestors(proc.cwd) # {}
    /\ \E i \in 1..Len(proc.cmdline) :
           /\ i + Len(S_commit) - 1 <= Len(proc.cmdline)
           /\ \A k \in 1..Len(S_commit) : proc.cmdline[i + k - 1] = S_commit[k]

\* One iteration of the watcher's loop, the sleep that ends it included.
\* failAt: which call of log_event in this iteration raises (0: none); the
\* exception ends the enumeration at the handler of line 291.
GitCycle(failAt) ==
    LET hits == SelectSeq(PidOrder, IsGitCommit)
        rows == [i \in 1..(IF failAt > 0 THEN failAt - 1 ELSE Len(hits)) |->
                    CommitRow(hits[i])]
    IN  /\ now <= MaxCommitTime
        /\ failAt \in 0..Len(hits)
        /\ failAt > 0 => appendFailures < MaxFail
        /\ Len(log) + Len(hits) <= MaxCommitLog
        /\ log' = log \o rows
        /\ appendFailures' = appendFailures + (IF failAt > 0 THEN 1 ELSE 0)
        /\ commitSeen' = [p \in PIDS |->
                             commitSeen[p] + (IF CommitCandidate(os[p]) THEN 1 ELSE 0)]
        /\ now' = now + CommitInterval
        /\ UNCHANGED os

CommitIdle == commitSeen = [p \in PIDS |-> 0]

(***************************************************************************)
(* Prompt logs: monitor_claude_code_prompts, _parse_claude_logs            *)
(***************************************************************************)
VARIABLES
    promptFiles,  \* the entries of the prompt-log directories, in listing order
    agentCwd,     \* os.getcwd() of the agent
    passes,       \* how many passes over the directories are done
    parsedFrom    \* the indices of the entries the last pass has taken
                  \* prompt rows from

promptVars == <<promptFiles, agentCwd, passes, parsedFrom>>

MaxPasses == 1
MaxLines == 2
\* line.strip()[:200]
PromptLimit == 200

S_user_colon == <<"u", "s", "e", "r", ":">>
S_prompt_colon == <<"p", "r", "o", "m", "p", "t", ":">>
S_dotlog == <<".", "l", "o", "g">>
S_session == <<"s", "e", "s", "s", "i", "o", "n">>
S_claude_prompt == S_claude \o <<"_", "p", "r", "o", "m", "p", "t">>

\* the names of directory entries: s.log, session, n.txt
E_log == <<"s", ".", "l", "o", "g">>
E_session == <<"s", "e", "s", "s", "i", "o", "n">>
E_txt == <<"n", ".", "t", "x", "t">>
EntryNames == {E_log, E_session, E_txt}

\* the lines of the files: " User: hi\n", "ok\n"
T_user == <<" ", "U", "s", "e", "r", ":", " ", "h", "i", "\n">>
T_other == <<"o", "k", "\n">>
Lines == {T_user, T_other}

NoFail == -1

\* a directory entry: its name, the lines of the file and the number of
\* lines the read delivers before it raises (NoFail: the whole file is read;
\* 0: open() or the first read raises)
PromptEntries ==
    {e \in [name : EntryNames,
            lines : UNION {[1..len -> Lines] : len \in 0..MaxLines},
            failsAfter : {NoFail} \cup (0..MaxLines)] :
        e.failsAfter <= Len(e.lines)}

\* what listing the directories can yield: one entry or two
Listings == [1..1 -> PromptEntries] \cup [1..2 -> PromptEntries]

WhiteSpace == {" ", "\n", "\t", "\r"}

RECURSIVE LStrip(_)
LStrip(str) ==
    IF str # << >> /\ Head(str) \in WhiteSpace THEN LStrip(Tail(str)) ELSE str

RECURSIVE RStrip(_)
RStrip(str) ==
    IF str # << >> /\ str[Len(str)] \in WhiteSpace
    THEN RStrip(SubSeq(str, 1, Len(str) - 1)) ELSE str

\* Python: s.strip()
strip(str) == RStrip(LStrip(str))

\* Python: s[:n]
Truncate(str, n) == IF Len(str) <= n THEN str ELSE SubSeq(str, 1, n)

\* line 167: the entries that are parsed
IsPromptLog(file) == EndsWith(file, S_dotlog) \/ IsSubstr(S_session, file)

\* line 178
IsPromptLine(line) ==
    IsSubstr(S_user_colon, lower(line)) \/ IsSubstr(S_prompt_colon, lower(line))

\* the lines the for-loop of line 177 gets before the read raises
LinesRead(entry) ==
    IF entry.failsAfter = NoFail \/ entry.failsAfter >= Len(entry.lines)
    THEN entry.lines
    ELSE SubSeq(entry.lines, 1, entry.failsAfter)

\* _parse_claude_logs(log_path): the rows it appends.  Each row is appended
\* when its line is read; the exception of a later read is swallowed at
\* line 184.
parse_claude_logs(entry) ==
    IF ~is_in_git_repo(agentCwd) THEN << >>
    ELSE LET hits == SelectSeq(LinesRead(entry), IsPromptLine)
         IN  [i \in 1..Len(hits) |->
                 Row(S_claude_prompt, find_git_repo(agentCwd), agentCwd, EmptyStr,
                     NoOutput, S_claude_code, Truncate(strip(hits[i]), PromptLimit), 0)]

RECURSIVE RowsOfEntries(_)
RowsOfEntries(entries) ==
    IF entries = << >> THEN << >>
    ELSE (IF IsPromptLog(Head(entries).name) THEN parse_claude_logs(Head(entries))
          ELSE << >>) \o RowsOfEntries(Tail(entries))

\* monitor_claude_code_prompts(): one pass over the entries
PromptPass ==
    /\ passes < MaxPasses
    /\ passes' = passes + 1
    /\ log' = log \o RowsOfEntries(promptFiles)
    /\ parsedFrom' = {i \in 1..Len(promptFiles) :
                         /\ IsPromptLog(promptFiles[i].name)
                         /\ parse_claude_logs(promptFiles[i]) # << >>}
    /\ UNCHANGED <<promptFiles, agentCwd, appendFailures, os, now>>

\* the assistant leaves its logs in the directories
PutEntries(entries) ==
    /\ passes = 0
    /\ promptFiles = << >>
    /\ promptFiles' = entries
    /\ UNCHANGED <<agentCwd, passes, parsedFrom, log, appendFailures, os, now>>

\* the agent is started in another directory
Chdir(dir) ==
    /\ passes = 0
    /\ agentCwd # dir
    /\ agentCwd' = dir
    /\ UNCHANGED <<promptFiles, passes, parsedFrom, log, appendFailures, os, now>>

PromptIdle ==
    /\ promptFiles = << >>
    /\ agentCwd = P_r
    /\ passes = 0
    /\ parsedFrom = {}

(***************************************************************************)
(* The threads of main() and the steps of log_event                        *)
(***************************************************************************)
VARIABLES
    pc,            \* thread -> "idle", "append" (inside the with-block of
                   \* log_event) or "dead" (ended by an exception)
    cur,           \* thread -> the row it is writing: its number, how many
                   \* raw writes it takes and how many are done
    file,          \* the CSV file: the raw writes in file order
    detected,      \* thread -> how many events its loop has detected
    stopRequested, \* observer.stop() has been called
    mainPc,        \* "running", "joining" (after KeyboardInterrupt) or "exited"
    uploads,       \* the number of upload cycles completed
    snapshots,     \* the upload cycles whose local snapshot file is left
    lastUpload     \* what the last upload cycle handed to gsutil, and
                   \* whether gsutil returned 0

agentVars == <<pc, cur, file, detected, stopRequested, mainPc, uploads, snapshots, lastUpload>>

MaxEvents == 3
MaxUploads == 1

\* the threads that call log_event: the three polling threads started by
\* main() and the thread of the observer that runs the handler's callbacks
Pollers == {"process_thread", "git_thread", "claude_thread"}
Appenders == Pollers \cup {"observer"}

NoRow == [seq |-> 0, of |-> 0, written |-> 0]

Chunk(t) ==
    [thread |-> t, seq |-> cur[t].seq, part |-> cur[t].written + 1, of |-> cur[t].of]

\* a file opened with mode 'w'
RawWrite_truncating(f, chunk) == <<chunk>>

\* a raw write on the file opened with mode 'a' (line 46)
RawWrite(f, chunk) == Append(f, chunk)

TotalDetected ==
    detected["process_thread"] + detected["git_thread"]
        + detected["claude_thread"] + detected["observer"]

\* a loop has detected an event and calls log_event; open() succeeds.  The
\* row is flushed with one raw write, or with two when it is long or the
\* first write is short.
BeginAppend(t, parts) ==
    /\ mainPc # "exited"
    /\ pc[t] = "idle"
    /\ t = "observer" => ~stopRequested
    /\ TotalDetected < MaxEvents
    /\ detected' = [detected EXCEPT ![t] = @ + 1]
    /\ cur' = [cur EXCEPT ![t] = [seq |-> detected[t] + 1, of |-> parts, written |-> 0]]
    /\ pc' = [pc EXCEPT ![t] = "append"]
    /\ UNCHANGED <<file, stopRequested, mainPc, uploads, snapshots, lastUpload, appendFailures>>

\* open() raises inside log_event.  The polling loops catch the exception
\* (lines 105, 291, 184) and go on; the handler's callbacks do not, and the
\* exception ends the observer's thread.
FailAppend(t) ==
    /\ mainPc # "exited"
    /\ pc[t] = "idle"
    /\ t = "observer" => ~stopRequested
    /\ TotalDetected < MaxEvents
    /\ appendFailures < MaxFail
    /\ detected' = [detected EXCEPT ![t] = @ + 1]
    /\ appendFailures' = appendFailures + 1
    /\ pc' = [pc EXCEPT ![t] = IF t \in Pollers THEN "idle" ELSE "dead"]
    /\ UNCHANGED <<cur, file, stopRequested, mainPc, uploads, snapshots, lastUpload>>

\* one raw write of the row; the last one is followed by the close
WritePart(t) ==
    /\ mainPc # "exited"
    /\ pc[t] = "append"
    /\ file' = RawWrite(file, Chunk(t))
    /\ IF cur[t].written + 1 = cur[t].of
       THEN /\ pc' = [pc EXCEPT ![t] = "idle"]
            /\ cur' = [cur EXCEPT ![t] = NoRow]
       ELSE /\ pc' = pc
            /\ cur' = [cur EXCEPT ![t].written = @ + 1]
    /\ UNCHANGED <<detected, stopRequested, mainPc, uploads, snapshots, lastUpload, appendFailures>>

NoUpload == [handed |-> {}, success |-> FALSE]

\* One cycle of upload_logs.  The snapshot gets a name of its own from the
\* time of the cycle (line 302); copied: cp succeeds (otherwise check=True
\* raises and line 320 catches it); uploaded: gsutil returns 0, and the
\* snapshot is removed.
UploadCycle(copied, uploaded) ==
    /\ mainPc # "exited"
    /\ uploaded => copied
    /\ uploads' = uploads + 1
    /\ snapshots' = IF copied /\ ~uploaded THEN snapshots \cup {uploads + 1}
                    ELSE snapshots
    /\ lastUpload' = IF copied THEN [handed |-> {uploads + 1}, success |-> uploaded]
                     ELSE NoUpload
    /\ UNCHANGED <<pc, cur, file, detected, stopRequested, mainPc, appendFailures>>

\* KeyboardInterrupt in main(): observer.stop()
Interrupt ==
    /\ mainPc = "running"
    /\ stopRequested' = TRUE
    /\ mainPc' = "joining"
    /\ UNCHANGED <<pc, cur, file, detected, uploads, snapshots, lastUpload, appendFailures>>

\* observer.join() returns once the observer's thread is outside a
\* callback; main() returns and the interpreter exits, which ends the
\* daemon threads wherever they are
ExitProcess ==
    /\ mainPc = "joining"
    /\ pc["observer"] # "append"
    /\ mainPc' = "exited"
    /\ UNCHANGED <<pc, cur, file, detected, stopRequested, uploads, snapshots, lastUpload, appendFailures>>

AgentIdle ==
    /\ pc = [t \in Appenders |-> "idle"]
    /\ cur = [t \in Appenders |-> NoRow]
    /\ file = << >>
    /\ detected = [t \in Appenders |-> 0]
    /\ stopRequested = FALSE
    /\ mainPc = "running"
    /\ uploads = 0
    /\ snapshots = {}
    /\ lastUpload = NoUpload

(***************************************************************************)
(* The process lifecycle tracker with its environment                      *)
(***************************************************************************)
\* the state of the parts that are also run on their own
sideVars == <<callbackVars, lifeVars, promptVars>>

vars == <<repoVars, clsVars, log, appendFailures, os, now, procVars, fileVars, commitVars, agentVars, sideVars>>

\* the agent right after GitPythonMonitor(): an empty log, nothing tracked
Started ==
    /\ log = << >>
    /\ appendFailures = 0
    /\ os = [p \in PIDS |-> NoProc]
    /\ now = 0
    /\ active_processes = << >>

Init ==
    /\ gitDirs = {D_r}
    /\ RepoIdle
    /\ ClsIdle
    /\ Started
    /\ FileIdle
    /\ CommitIdle
    /\ AgentIdle
    /\ CallbackIdle
    /\ LifeIdle
    /\ PromptIdle

Next ==
    \/ \E pid \in PIDS, image \in ProcImages :
           Spawn(pid, image) /\ UNCHANGED <<repoVars, clsVars, procVars, fileVars, commitVars, agentVars, sideVars>>
    \/ \E pid \in PIDS : Exit(pid) /\ UNCHANGED <<repoVars, clsVars, procVars, fileVars, commitVars, agentVars, sideVars>>
    \/ \E dying \in SUBSET PIDS, failAt \in 0..(2 * Cardinality(PIDS)) :
           ProcCycle(dying, failAt) /\ UNCHANGED <<repoVars, clsVars, fileVars, commitVars, agentVars, sideVars>>

Spec == Init /\ [][Next]_vars

(***************************************************************************)
(* Properties of the process lifecycle tracker                             *)
(***************************************************************************)
RowsOf(pid) == SelectSeq(log, LAMBDA r : r.pid = pid)
IsStartRow(r) == EndsWith(r.event_type, S__start)
IsEndRow(r) == EndsWith(r.event_type, S__end)
CategoryOf(r) ==
    IF IsStartRow(r) THEN SubSeq(r.event_type, 1, Len(r.event_type) - Len(S__start))
    ELSE SubSeq(r.event_type, 1, Len(r.event_type) - Len(S__end))

\* the rows an iteration has appended
Appended == SubSeq(log', Len(log) + 1, Len(log'))
AppendedFor(pid) == SelectSeq(Appended, LAMBDA r : r.pid = pid)

\* of interest and inside a repo at the enumeration
Observed(pid) ==
    /\ os[pid] # NoProc
    /\ is_monitored(os[pid].name)
    /\ is_in_git_repo(os[pid].cwd)

\* per pid the rows are start, end, start, end, ...; each end has the category
\* of the start before it; the pid is tracked exactly after a start
LifecycleRows ==
    \A pid \in PIDS :
        LET rows == RowsOf(pid)
        IN  /\ \A i \in 1..Len(rows) :
                   IF i % 2 = 1 THEN IsStartRow(rows[i])
                   ELSE /\ IsEndRow(rows[i])
                        /\ CategoryOf(rows[i]) = CategoryOf(rows[i - 1])
            /\ pid \in TrackedPids <=> Len(rows) % 2 = 1

\* what one iteration does for a pid: os is the table at the enumeration,
\* os' the table at the clean-up
LifecycleStep ==
    \A pid \in PIDS :
        LET new == pid \notin TrackedPids /\ Observed(pid)
            gone == os'[pid] = NoProc
            rows == AppendedFor(pid)
        IN  /\ new /\ ~gone =>
                /\ Len(rows) = 1 /\ IsStartRow(rows[1])
                /\ rows[1].timestamp = now
                /\ pid \in TrackedPids'
            /\ pid \in TrackedPids /\ gone =>
                /\ Len(rows) = 1 /\ IsEndRow(rows[1])
                /\ rows[1].timestamp = now
                /\ pid \notin TrackedPids'
            /\ pid \in TrackedPids /\ ~gone =>
                /\ rows = << >>
                /\ pid \in TrackedPids'
            /\ new /\ gone =>
                /\ Len(rows) = 2 /\ IsStartRow(rows[1]) /\ IsEndRow(rows[2])
                /\ pid \notin TrackedPids'
            /\ ~new /\ pid \notin TrackedPids =>
                /\ rows = << >>
                /\ pid \notin TrackedPids'

\* C1: while no append fails, a pid of interest inside a repo that is first
\* observed in the iteration at time N gets exactly one _start row in that
\* iteration, gets no further row while it stays tracked, and gets exactly
\* one _end row, of the same category, in the first iteration whose clean-up
\* finds the pid gone (the iteration at N + PollInterval when it exits in
\* between), after which the pid is not tracked.
C1_Lifecycle ==
    /\ [](appendFailures = 0 => LifecycleRows)
    /\ [][(now' # now /\ appendFailures' = 0) => LifecycleStep]_vars

\* pid first observed in one iteration and gone in the next: one start row,
\* one end row an interval later, pid no longer tracked
C1_Witness ==
    \E pid \in PIDS :
        LET rows == RowsOf(pid)
        IN  /\ appendFailures = 0
            /\ Len(rows) = 2
            /\ IsStartRow(rows[1]) /\ IsEndRow(rows[2])
            /\ rows[2].timestamp = rows[1].timestamp + PollInterval
            /\ pid \notin TrackedPids

\* the entry's _end event is among the rows an iteration has appended
EndAppendedFor(info) ==
    \E j \in 1..Len(Appended) :
        /\ IsEndRow(Appended[j])
        /\ Appended[j].pid = info.pid
        /\ Appended[j].timestamp - Appended[j].output = info.start_time

\* C14: an event whose append has failed is dropped: no iteration appends
\* the _end event of an entry that an earlier clean-up has already handed to
\* log_event, whether that call wrote the row or raised.
C14_DroppedNotRetried ==
    [][\A i \in 1..Len(active_processes) :
           active_processes[i].submitted => ~EndAppendedFor(active_processes[i])]_vars

StartsIn(rows) == Len(SelectSeq(rows, IsStartRow))
EndsIn(rows) == Len(SelectSeq(rows, IsEndRow))

\* C18: whether or not appends fail, at every point the rows of a pid hold at
\* least as many _start rows as _end rows, in every prefix: each _end row is
\* preceded by a _start row of its own.
C18_EndAfterStart ==
    \A pid \in PIDS :
        \A k \in 1..Len(RowsOf(pid)) :
            EndsIn(SubSeq(RowsOf(pid), 1, k)) <= StartsIn(SubSeq(RowsOf(pid), 1, k))

\* C19: while no append fails, the tool of an _end row is the tool of the
\* _start row of the same tracked process.
C19_SameTool ==
    appendFailures = 0 =>
        \A pid \in PIDS :
            \A i \in 2..Len(RowsOf(pid)) :
                (IsEndRow(RowsOf(pid)[i]) /\ IsStartRow(RowsOf(pid)[i - 1])) =>
                    RowsOf(pid)[i].tool = RowsOf(pid)[i - 1].tool

(***************************************************************************)
(* The tracker with one process at a time, of any name and command line    *)
(***************************************************************************)
MaxTrackLog == 2

TrackCmds == {L_plain, L_claude, L_Claude}
WideImages ==
    {[name |-> n, cmdline |-> c, cwd |-> P_r, open_files |-> {}] :
        n \in ProcNames, c \in TrackCmds}

otherThanTracker == <<repoVars, clsVars, fileVars, commitVars, agentVars, sideVars>>

NextTracked ==
    \/ \E pid \in PIDS, image \in WideImages :
           /\ \A p \in PIDS : os[p] = NoProc
           /\ Len(log) < MaxTrackLog
           /\ Spawn(pid, image)
           /\ UNCHANGED <<otherThanTracker, procVars>>
    \/ \E pid \in PIDS : Exit(pid) /\ UNCHANGED <<otherThanTracker, procVars>>
    \/ \E dying \in SUBSET PIDS :
           /\ ProcCycle(dying, 0)
           /\ Len(log') <= MaxTrackLog
           /\ UNCHANGED otherThanTracker

SpecTracked == Init /\ [][NextTracked]_vars

TrackedCategories == {S_python, S_nodejs, S_vscode}

\* C20: every tracked entry has the category python, nodejs or vscode, and
\* so has every _start and _end row of the log; none has claude_code or
\* unknown, whatever the command line is.
C20_TrackedCategories ==
    /\ \A i \in 1..Len(active_processes) :
           active_processes[i].proc_type \in TrackedCategories
    /\ \A i \in 1..Len(log) :
           (IsStartRow(log[i]) \/ IsEndRow(log[i])) =>
               /\ CategoryOf(log[i]) \in TrackedCategories
               /\ CategoryOf(log[i]) \notin {S_claude_code, S_unknown}

\* a process whose command line names claude was tracked from start to end
\* under the category of its name
C20_Witness ==
    \E pid \in PIDS :
        /\ Len(RowsOf(pid)) = 2
        /\ IsStartRow(RowsOf(pid)[1]) /\ IsEndRow(RowsOf(pid)[2])
        /\ IsSubstr(S_claude, lower(RowsOf(pid)[1].command))
        /\ CategoryOf(RowsOf(pid)[1]) = S_vscode
        /\ CategoryOf(RowsOf(pid)[2]) = S_vscode

(***************************************************************************)
(* The tracker against the running clock, every pid used once              *)
(***************************************************************************)
otherThanRuntime ==
    <<repoVars, clsVars, fileVars, commitVars, agentVars, callbackVars, promptVars>>

\* the processes are started in /r, inside the repo: one of interest (pnpm)
\* and one that is not (bash)
NextRuntime ==
    \/ Sleep /\ UNCHANGED otherThanRuntime
    \/ \E pid \in PIDS, image \in ProcImages :
           /\ image.cwd = P_r
           /\ SpawnOnce(pid, image)
           /\ UNCHANGED otherThanRuntime
    \/ \E pid \in PIDS : ExitAt(pid) /\ UNCHANGED otherThanRuntime
    \/ \E dying \in SUBSET PIDS, failAt \in 0..(2 * Cardinality(PIDS)) :
           Poll(dying, failAt) /\ UNCHANGED otherThanRuntime

SpecRuntime == Init /\ [][NextRuntime]_vars

Abs(x) == IF x < 0 THEN 0 - x ELSE x

\* C15: with every pid used once, an _end row reports the time of the
\* iteration that first finds the pid gone minus the time of the pid's first
\* observation; the runtime is not negative and is within one polling
\* interval of the time from the start of the process to its exit; and the
\* pid is not tracked once its _end row is written.
C15_Runtime ==
    \A i \in 1..Len(log) :
        IsEndRow(log[i]) =>
            LET pid == log[i].pid
                starts == SelectSeq(RowsOf(pid), IsStartRow)
            IN  /\ log[i].timestamp >= died[pid]
                /\ log[i].timestamp - died[pid] <= PollInterval
                /\ starts # << >> =>
                       log[i].output = log[i].timestamp - starts[1].timestamp
                /\ log[i].output >= 0
                /\ Abs(log[i].output - (died[pid] - born[pid])) <= PollInterval
                /\ pid \notin TrackedPids

(***************************************************************************)
(* The prompt-log scan over any listing of the directories                 *)
(***************************************************************************)
otherThanPrompt ==
    <<repoVars, clsVars, procVars, fileVars, commitVars, agentVars,
      callbackVars, lifeVars>>

NextPrompt ==
    \/ /\ promptFiles = << >>
       /\ \E entries \in Listings : PutEntries(entries) /\ UNCHANGED otherThanPrompt
    \/ \E dir \in {P_r, P_t} : Chdir(dir) /\ UNCHANGED otherThanPrompt
    \/ PromptPass /\ UNCHANGED otherThanPrompt

SpecPrompt == Init /\ [][NextPrompt]_vars

\* the entry is parsed, is read to its end and holds a prompt line
YieldsPrompts(entry) ==
    /\ IsPromptLog(entry.name)
    /\ entry.failsAfter = NoFail
    /\ \E i \in 1..Len(entry.lines) : IsPromptLine(entry.lines[i])

\* C16: a pass appends no prompt row taken from a file whose read raises at
\* any point, and appends the prompt rows of the files that are read to
\* their end, whether they come before or after such a file in the listing.
C16_NoPartialParse ==
    passes > 0 =>
        \A i \in 1..Len(promptFiles) :
            /\ promptFiles[i].failsAfter # NoFail => i \notin parsedFrom
            /\ (YieldsPrompts(promptFiles[i]) /\ is_in_git_repo(agentCwd)) =>
                   i \in parsedFrom

(***************************************************************************)
(* The repo locator on its own: any set of repositories, any path          *)
(***************************************************************************)
otherThanRepo == <<clsVars, log, appendFailures, os, now, procVars, fileVars, commitVars, agentVars, sideVars>>

InitRepo ==
    /\ gitDirs \in SUBSET Dirs
    /\ RepoIdle
    /\ ClsIdle
    /\ Started
    /\ FileIdle
    /\ CommitIdle
    /\ AgentIdle
    /\ CallbackIdle
    /\ LifeIdle
    /\ PromptIdle

NextRepo ==
    \E p \in LocatorPaths : Locate(p) /\ UNCHANGED otherThanRepo

SpecRepo == InitRepo /\ [][NextRepo]_vars

\* C9: if an ancestor of the path (the path included) holds a .git entry,
\* is_in_git_repo is true and find_git_repo is the nearest such ancestor;
\* otherwise is_in_git_repo is false and find_git_repo returns the path as
\* given; is_in_git_repo holds exactly when the result holds a .git entry.
C9_Locator ==
    queryPath # NoQuery =>
        /\ IF GitAncestors(queryPath) # {}
           THEN /\ inRepo
                /\ repoRoot = PathStr(NearestOf(GitAncestors(queryPath)))
           ELSE /\ ~inRepo
                /\ repoRoot = queryPath
        /\ inRepo <=> ContainsGit(repoRoot)

\* a path inside a repository nested in another one, located at the inner one
C9_Witness ==
    /\ queryPath = P_raf
    /\ {D_r, D_ra} \subseteq gitDirs
    /\ inRepo
    /\ repoRoot = P_ra

(***************************************************************************)
(* The process classifier on its own: any name, any command line           *)
(***************************************************************************)
otherThanCls == <<repoVars, log, appendFailures, os, now, procVars, fileVars, commitVars, agentVars, sideVars>>

NextClassify ==
    \E name \in ProcNames, cmdline \in CmdLines :
        Classify(name, cmdline) /\ UNCHANGED otherThanCls

SpecClassify == Init /\ [][NextClassify]_vars

\* the rule table of the documented policy: the number of the first rule, in
\* priority order, that the process matches
RuleOf(name, cmdline) ==
    IF IsSubstr(S_code, lower(name)) THEN 1
    ELSE IF lower(name) \in NodeTools THEN 2
    ELSE IF IsSubstr(S_python, lower(name)) THEN 3
    ELSE IF IsSubstr(S_claude, lower(cmdline)) THEN 4
    ELSE 5

CategoryOfRule(rule) ==
    CASE rule = 1 -> S_vscode
      [] rule = 2 -> S_nodejs
      [] rule = 3 -> S_python
      [] rule = 4 -> S_claude_code
      [] OTHER -> S_unknown

ToolOfRule(rule, name) ==
    CASE rule = 1 -> S_vscode
      [] rule = 2 -> lower(name)
      [] rule = 3 -> S_python
      [] rule = 4 -> S_claude_code
      [] OTHER -> name

\* C8: the category and the tool label of a process are both those of the
\* first matching rule in the order: editor marker in the name, name equal
\* to a package-manager tool, "python" in the name, assistant marker in the
\* command line, otherwise unknown with the raw name as the tool.
C8_SingleRule ==
    clsName # NoName =>
        /\ clsType = CategoryOfRule(RuleOf(clsName, clsCmd))
        /\ clsTool = ToolOfRule(RuleOf(clsName, clsCmd), clsName)

(***************************************************************************)
(* The file event handler with the clock                                   *)
(***************************************************************************)
otherThanFile == <<repoVars, clsVars, procVars, commitVars, agentVars, sideVars>>

NextFile ==
    \/ Tick /\ now < MaxFileTime /\ UNCHANGED <<otherThanFile, fileVars>>
    \/ \E f \in FilePaths, d \in BOOLEAN, x \in BOOLEAN :
           on_modified(f, d, x) /\ UNCHANGED otherThanFile
    \/ \E f \in FilePaths, d \in BOOLEAN, x \in BOOLEAN :
           on_created(f, d, x) /\ UNCHANGED otherThanFile

SpecFile == Init /\ [][NextFile]_vars

IsFileRow(r) == r.event_type \in {S_file_edit, S_file_create}
EditRowsOf(path) ==
    SelectSeq(log, LAMBDA r : r.event_type = S_file_edit /\ r.file_path = path)

\* the latest modify notification for a path against the one before it
DebouncePairs ==
    \A f \in FilePaths :
        LET n == heard[f]
        IN  n.time # NoTime =>
                /\ n.prevTime = NoTime => n.admitted
                /\ (/\ n.prevTime # NoTime
                    /\ n.prevAdmitted
                    /\ n.time - n.prevTime < DebounceWindow) => ~n.admitted
                /\ (/\ n.prevTime # NoTime
                    /\ n.time - n.prevTime >= 2 * DebounceWindow) => n.admitted

\* an admitted notification is one file_edit row, a suppressed one is none
DebounceStep ==
    \A f \in FilePaths :
        heard'[f] # heard[f] =>
            /\ (heard'[f].admitted /\ ~heard'[f].failed) =>
                   /\ Len(log') = Len(log) + 1
                   /\ log'[Len(log')].event_type = S_file_edit
                   /\ log'[Len(log')].file_path = f
                   /\ log'[Len(log')].timestamp = now
            /\ ~heard'[f].admitted => log' = log

\* C2: for a path that is not excluded and lies in a repo, the first modify
\* notification is admitted; a modify notification less than 1 second after
\* an admitted one is suppressed, so the two produce exactly one file_edit
\* row; a modify notification 2 seconds or more after the previous one is
\* admitted and produces a further file_edit row.
C2_Debounce ==
    /\ []DebouncePairs
    /\ [][DebounceStep]_vars

\* three notifications for one path: admitted, suppressed within the second,
\* admitted again 2 seconds after the suppressed one; two file_edit rows
C2_Witness ==
    /\ heard[F_src].admitted /\ ~heard[F_src].failed
    /\ heard[F_src].prevTime # NoTime /\ ~heard[F_src].prevAdmitted
    /\ heard[F_src].time - heard[F_src].prevTime = 2 * DebounceWindow
    /\ Len(EditRowsOf(F_src)) = 2
    /\ EditRowsOf(F_src)[1].timestamp > heard[F_src].prevTime - DebounceWindow
    /\ EditRowsOf(F_src)[2].timestamp = heard[F_src].time

S_node_modules == <<"n", "o", "d", "e", "_", "m", "o", "d", "u", "l", "e", "s">>

\* the path has a directory component named node_modules
UnderNodeModules(path) ==
    LET parts == PathParts(path)
    IN  \E i \in 1..(Len(parts) - 1) : parts[i] = S_node_modules

MatchesExclusion(path) ==
    \/ UnderNodeModules(path)
    \/ EndsWith(path, K_lock)
    \/ \E i \in 1..Len(skip_patterns) : IsSubstr(skip_patterns[i], path)

\* C10: the log has no file_edit or file_create row for a path under
\* node_modules/, ending in .lock or matching another exclusion pattern, and
\* the debounce table has no entry for such a path.
C10_Excluded ==
    /\ \A i \in 1..Len(log) : IsFileRow(log[i]) => ~MatchesExclusion(log[i].file_path)
    /\ \A f \in FilePaths : MatchesExclusion(f) => last_modified[f] = NoTime

\* notifications for a lock file and for a file under node_modules/ were
\* delivered and dropped, next to an admitted one
C10_Witness ==
    /\ {F_lock, F_dep} \subseteq skipped
    /\ Len(log) >= 1
    /\ last_modified[F_src] # NoTime

\* C11: the debounce window slides: a modify notification that reaches the
\* debounce test sets the path's entry of last_modified to the current time
\* whether it is admitted or suppressed, so a modify notification less than
\* 1 second after the previous one is never admitted.
C11_SlidingWindow ==
    \A f \in FilePaths :
        heard[f].time # NoTime =>
            /\ last_modified[f] = heard[f].time
            /\ (/\ heard[f].prevTime # NoTime
                /\ heard[f].time - heard[f].prevTime < DebounceWindow) =>
                   ~heard[f].admitted

FileRowsOf(path) ==
    SelectSeq(log, LAMBDA r : IsFileRow(r) /\ r.file_path = path)

\* C12: any two file_edit or file_create rows for one path are at least
\* 1 second apart, and the path's entry of last_modified is the time of the
\* latest of them.
C12_AllKindsDebounced ==
    \A f \in FilePaths :
        LET rows == FileRowsOf(f)
        IN  /\ \A i \in 1..(Len(rows) - 1) :
                   rows[i + 1].timestamp - rows[i].timestamp >= DebounceWindow
            /\ rows # << >> => last_modified[f] >= rows[Len(rows)].timestamp

(***************************************************************************)
(* The handler run by two delivering threads, with the clock               *)
(***************************************************************************)
otherThanCallback ==
    <<repoVars, clsVars, procVars, commitVars, agentVars, lifeVars, promptVars,
      observerAlive, heard, skipped, appendFailures, os>>

NextCallback ==
    \/ Tick /\ now < MaxFileTime
            /\ UNCHANGED <<otherThanCallback, callbackVars, last_modified>>
    \/ \E c \in Deliverers, f \in FilePaths, d \in BOOLEAN :
           TestDebounce(c, f, d) /\ UNCHANGED otherThanCallback
    \/ \E c \in Deliverers : AdmitModified(c) /\ UNCHANGED otherThanCallback

SpecCallback == Init /\ [][NextCallback]_vars

\* C13: the test of a path's entry of last_modified and its update are one
\* step under mutual exclusion: no two callbacks are between the test and
\* the update for one path at once, and two file_edit rows for one path are
\* at least 1 second apart.
C13_AtomicDebounce ==
    /\ \A c1 \in Deliverers, c2 \in Deliverers :
           (c1 # c2 /\ cbPc[c1] = "admit" /\ cbPc[c2] = "admit") =>
               cbPath[c1] # cbPath[c2]
    /\ \A f \in FilePaths :
           \A i \in 1..(Len(EditRowsOf(f)) - 1) :
               EditRowsOf(f)[i + 1].timestamp - EditRowsOf(f)[i].timestamp
                   >= DebounceWindow

(***************************************************************************)
(* The commit watcher with its environment                                 *)
(***************************************************************************)
otherThanCommit == <<repoVars, clsVars, procVars, fileVars, agentVars, sideVars>>

NextCommit ==
    \/ \E pid \in PIDS, image \in GitImages :
           Spawn(pid, image) /\ UNCHANGED <<otherThanCommit, commitVars>>
    \/ \E pid \in PIDS : Exit(pid) /\ UNCHANGED <<otherThanCommit, commitVars>>
    \/ \E failAt \in 0..Cardinality(PIDS) : GitCycle(failAt) /\ UNCHANGED otherThanCommit

SpecCommit == Init /\ [][NextCommit]_vars

CommitRowsOf(pid) ==
    SelectSeq(log, LAMBDA r : r.event_type = S_git_commit /\ r.pid = pid)

\* C7: while no append fails, every iteration of the watcher appends exactly
\* one git_commit row for each process named exactly "git" whose working
\* directory is inside a repo and whose command line contains "commit", and
\* none for any other process: a pid has as many git_commit rows as there
\* were iterations that enumerated such a process under it.
C7_CommitPerCycle ==
    /\ [](appendFailures = 0 =>
            \A pid \in PIDS : Len(CommitRowsOf(pid)) = commitSeen[pid])
    /\ [][(now' # now /\ appendFailures' = 0) =>
            \A pid \in PIDS :
                /\ Len(AppendedFor(pid)) = (IF CommitCandidate(os[pid]) THEN 1 ELSE 0)
                /\ \A i \in 1..Len(AppendedFor(pid)) :
                       /\ AppendedFor(pid)[i].event_type = S_git_commit
                       /\ AppendedFor(pid)[i].command = os[pid].cmdline]_vars

\* a git commit alive over two consecutive iterations: two rows, one
\* interval apart, next to a git process that is no commit and has no row
C7_Witness ==
    /\ appendFailures = 0
    /\ \E pid \in PIDS :
           /\ commitSeen[pid] = 2
           /\ Len(CommitRowsOf(pid)) = 2
           /\ CommitRowsOf(pid)[2].timestamp = CommitRowsOf(pid)[1].timestamp + CommitInterval
    /\ \E pid \in PIDS :
           /\ os[pid] # NoProc
           /\ ~CommitCandidate(os[pid])
           /\ CommitRowsOf(pid) = << >>

(***************************************************************************)
(* The agent as started by main(): all threads against one log file        *)
(***************************************************************************)
otherThanAgent == <<repoVars, clsVars, procVars, fileVars, commitVars, sideVars, log, os, now>>

NextAgent ==
    \/ \E t \in Appenders, parts \in 1..2 : BeginAppend(t, parts) /\ UNCHANGED otherThanAgent
    \/ \E t \in Appenders : FailAppend(t) /\ UNCHANGED otherThanAgent
    \/ \E t \in Appenders : WritePart(t) /\ UNCHANGED otherThanAgent
    \/ /\ uploads < MaxUploads
       /\ \E c \in BOOLEAN, u \in BOOLEAN : UploadCycle(c, u) /\ UNCHANGED otherThanAgent
    \/ Interrupt /\ UNCHANGED otherThanAgent
    \/ ExitProcess /\ UNCHANGED otherThanAgent

SpecAgent == Init /\ [][NextAgent]_vars

InAppend(t) == pc[t] = "append"

\* a raw write that does not end its row is directly followed by the next
\* raw write of the same row
NoInterleaving ==
    \A i \in 1..Len(file) :
        file[i].part < file[i].of =>
            \/ i = Len(file) /\ InAppend(file[i].thread)
            \/ /\ i < Len(file)
               /\ file[i + 1].thread = file[i].thread
               /\ file[i + 1].seq = file[i].seq

\* C3: each append is mutually exclusive: no two threads are inside the
\* open-write-close section of log_event at once, and no row is written
\* interleaved with part of another row.
C3_MutualExclusion ==
    /\ \A t1 \in Appenders, t2 \in Appenders :
           t1 # t2 => ~(InAppend(t1) /\ InAppend(t2))
    /\ NoInterleaving

IsPrefixSeq(s1, s2) == Len(s1) <= Len(s2) /\ SubSeq(s2, 1, Len(s1)) = s1

\* the raw writes of one thread appear in the order of its events
OrderedPerThread ==
    \A i \in 1..Len(file), j \in 1..Len(file) :
        (i < j /\ file[i].thread = file[j].thread) =>
            \/ file[i].seq < file[j].seq
            \/ file[i].seq = file[j].seq /\ file[i].part < file[j].part

\* C4: the log only grows: every step leaves the earlier content as a prefix
\* of the later content, and the rows of each loop appear in the order in
\* which the loop detected their events.
C4_AppendOnly ==
    /\ []OrderedPerThread
    /\ [][IsPrefixSeq(file, file')]_vars

\* two rows of one loop with a row of another loop written between them
C4_Witness ==
    \E i \in 1..Len(file), j \in 1..Len(file), k \in 1..Len(file) :
        /\ i < j /\ j < k
        /\ file[i].thread = file[k].thread
        /\ file[j].thread # file[i].thread
        /\ file[i].seq = 1 /\ file[k].seq = 2

\* C5: no failure in one loop ends a loop: as long as no termination was
\* requested, every thread that appends to the log, the one delivering the
\* file notifications included, is running.
C5_LoopsKeepRunning ==
    mainPc = "running" => \A t \in Appenders : pc[t] # "dead"

\* C6: on shutdown every append in progress is finished before the process
\* exits: at the exit no thread is between opening the log and completing
\* its row, and the file ends with a complete row.
C6_CleanShutdown ==
    mainPc = "exited" =>
        /\ \A t \in Appenders : ~InAppend(t)
        /\ file # << >> => file[Len(file)].part = file[Len(file)].of

(***************************************************************************)
(* The upload loop on its own                                              *)
(***************************************************************************)
MaxCycles == 6

NextUpload ==
    /\ uploads < MaxCycles
    /\ \E c \in BOOLEAN, u \in BOOLEAN : UploadCycle(c, u) /\ UNCHANGED otherThanAgent

SpecUpload == Init /\ [][NextUpload]_vars

\* C17: after an upload cycle in which gsutil returned 0 the snapshot of
\* that cycle is gone; after one in which it did not, the snapshot is left,
\* and the next cycle hands that snapshot to gsutil again.
C17_SnapshotRetried ==
    /\ [](lastUpload.handed # {} =>
            (lastUpload.success <=> uploads \notin snapshots))
    /\ [][(uploads' # uploads /\ uploads \in snapshots) =>
            uploads \in lastUpload'.handed]_vars

====
